---- MODULE Spec2Model ----
(***************************************************************************)
(* Static-analysis pipeline of the coding agent: CodeTools                 *)
(* (src/agent/code_tools.py) and CodeAnalyzer (src/agent/analyzer.py).     *)
(*                                                                         *)
(* Source text is a sequence of atoms.  An atom is a run of characters     *)
(* that the code never looks inside: a name, a separator, or a whole       *)
(* one-line statement.  Texts are drawn from four alphabets, which are     *)
(* never mixed on one line:                                                *)
(*   Atoms     names, comments, blanks, an unclosed bracket, DeepAtom (a   *)
(*             chain x+x+...+x long enough to exhaust the parser's         *)
(*             recursion limit), one definition and one star import;       *)
(*   PyAtoms   Python import statements and function definitions;          *)
(*   JsAtoms   JavaScript import declarations;                             *)
(*   LineAtoms the line terminators "\n" and "\r".                         *)
(***************************************************************************)
EXTENDS Integers, Sequences, FiniteSets, TLC

\* ---------------------------------------------------------------- bounds
MaxLen == 4
MaxEntries == 2
MaxStatements == 3
MaxSegments == 2
MaxHistory == 2
MaxSession == 3
MaxConversations == 2

\* ----------------------------------------------------------------- atoms
DeepAtom == "DEEP"
DefAtom == "def f(a): 0"
ImportAtom == "from a import *"
Atoms == {"x", "#", " ", "\n", "(", DeepAtom, DefAtom, ImportAtom}

ImportOs == "import os"
FromSysImportPath == "from sys import path"
ImportAliased == "import a as b, c"
FromAliased == "from m import a as c, b"
NestedImport == "def g(): import n"
DefAdd == "def add(a, b): 0"
DefDoc == "def h(a, b=1, *c, d, **e): 'doc'"
DefPosOnly == "def p(a, /, b): 0"
AsyncDef == "async def k(): 0"
PyAtoms == {ImportOs, FromSysImportPath, ImportAliased, FromAliased,
            NestedImport, DefAdd, DefDoc, DefPosOnly, AsyncDef,
            "\n", " ", "("}

JsImport == "import y from 'b';"
JsRequire == "const x = require('a');"
JsAtoms == {JsImport, JsRequire, "\n", " ", "x"}

LineAtoms == {"x", "#", " ", "\n", "\r", DefAtom}

\* Texts the security scan is run on: a call, a longer identifier, a string
\* literal, a call two rules match, and a call holding two more substrings.
SecAtoms == {"eval(x)", "executor", "'os.system'",
             "subprocess.call(x, shell=True)", "input()",
             "pickle.loads(yaml.load(f))", "#", "\n", "x"}

Texts == UNION {[1..n -> Atoms] : n \in 0..MaxLen}
PyTexts == UNION {[1..n -> PyAtoms] : n \in 0..MaxStatements}
JsTexts == UNION {[1..n -> JsAtoms] : n \in 0..MaxStatements}
LineTexts == UNION {[1..n -> LineAtoms] : n \in 0..MaxStatements}
SecTexts == UNION {[1..n -> SecAtoms] : n \in 0..MaxStatements}

\* "import os\nfrom sys import path"
TwoImportsText == <<ImportOs, "\n", FromSysImportPath>>

\* a 5-line file with the definition of add on line 2
FiveLineText == <<"\n", DefAdd, "\n", "\n", "\n">>

None == "None"

\* A call either returns a value or raises an exception.
Ret(v) == [raised |-> FALSE, val |-> v]
Raise(e, m) == [raised |-> TRUE, exc |-> e, msg |-> m]

Max(a, b) == IF a >= b THEN a ELSE b

RECURSIVE SumSeq(_)
SumSeq(s) == IF s = <<>> THEN 0 ELSE Head(s) + SumSeq(Tail(s))

\* ------------------------------------------------------ string primitives
\* split that never cuts: the whole text as one line
split_NoSplit(s) == <<s>>

\* str.split('\n')
RECURSIVE split(_)
split(s) ==
    IF \A i \in 1..Len(s) : s[i] # "\n"
    THEN <<s>>
    ELSE LET i == CHOOSE k \in 1..Len(s) :
                      s[k] = "\n" /\ \A j \in 1..(k - 1) : s[j] # "\n"
         IN  <<SubSeq(s, 1, i - 1)>> \o split(SubSeq(s, i + 1, Len(s)))

IsSpace(a) == a \in {" ", "\n", "\r"}

RECURSIVE lstrip(_)
lstrip(s) == IF s # <<>> /\ IsSpace(Head(s)) THEN lstrip(Tail(s)) ELSE s

RECURSIVE rstrip(_)
rstrip(s) ==
    IF s # <<>> /\ IsSpace(s[Len(s)]) THEN rstrip(SubSeq(s, 1, Len(s) - 1)) ELSE s

\* str.strip()
strip(s) == rstrip(lstrip(s))

\* str.startswith(prefix) for a one-atom prefix
startswith(s, a) == s # <<>> /\ Head(s) = a

\* ------------------------------------------------------------ ast.parse
\* Universal newlines, as the tokenizer and text-mode reads apply them:
\* "\r\n" and a lone "\r" both become "\n".
RECURSIVE translate_newlines(_)
translate_newlines(s) ==
    IF s = <<>> THEN <<>>
    ELSE IF Head(s) = "\r"
    THEN <<"\n">> \o translate_newlines(
             IF Len(s) >= 2 /\ s[2] = "\n" THEN Tail(Tail(s)) ELSE Tail(s))
    ELSE <<Head(s)>> \o translate_newlines(Tail(s))

\* The part of a physical line the tokenizer reads: up to the first '#'.
CodePart(line) ==
    IF \E i \in 1..Len(line) : line[i] = "#"
    THEN LET i == CHOOSE k \in 1..Len(line) :
                      line[k] = "#" /\ \A j \in 1..(k - 1) : line[j] # "#"
         IN  SubSeq(line, 1, i - 1)
    ELSE line

\* The atoms that are one complete statement
StatementAtoms ==
    {DefAtom, ImportAtom, ImportOs, FromSysImportPath, ImportAliased,
     FromAliased, NestedImport, DefAdd, DefDoc, DefPosOnly, AsyncDef}

IsStatement(body) ==
    \/ body # <<>> /\ \A i \in 1..Len(body) : body[i] \in {"x", DeepAtom}
    \/ Len(body) = 1 /\ body[1] \in StatementAtoms

\* A physical line is accepted when it is blank or comment-only, or holds
\* one statement at indentation 0.
LineParses(line) ==
    LET c == CodePart(line)
    IN  \/ \A i \in 1..Len(c) : c[i] = " "
        \/ /\ Head(c) # " "
           /\ IsStatement(rstrip(c))

\* ast.alias
Alias(n, a) == [name |-> n, asname |-> a]

\* ast.arguments
Arguments(po, a, va, ko, kw) ==
    [posonlyargs |-> po, args |-> a, vararg |-> va, kwonlyargs |-> ko,
     kwarg |-> kw]

\* An expression statement; str is its value when that is a string literal.
ExprNode(n, s) == [type |-> "Expr", lineno |-> n, str |-> s, body |-> <<>>]

ImportNode(n, aliases) ==
    [type |-> "Import", lineno |-> n, names |-> aliases, body |-> <<>>]

ImportFromNode(n, m, aliases) ==
    [type |-> "ImportFrom", lineno |-> n, module |-> m, names |-> aliases,
     body |-> <<>>]

DefNode(t, n, nm, a, b) ==
    [type |-> t, lineno |-> n, name |-> nm, args |-> a, body |-> b]

\* The statement node of a line that parses, at line number n
NodeOf(line, n) ==
    LET b == rstrip(CodePart(line))
        zero == <<ExprNode(n, None)>>
    IN  CASE b = <<DefAtom>> ->
               DefNode("FunctionDef", n, "f",
                       Arguments(<<>>, <<"a">>, None, <<>>, None), zero)
          [] b = <<DefAdd>> ->
               DefNode("FunctionDef", n, "add",
                       Arguments(<<>>, <<"a", "b">>, None, <<>>, None), zero)
          [] b = <<DefDoc>> ->
               DefNode("FunctionDef", n, "h",
                       Arguments(<<>>, <<"a", "b">>, "c", <<"d">>, "e"),
                       <<ExprNode(n, "doc")>>)
          [] b = <<DefPosOnly>> ->
               DefNode("FunctionDef", n, "p",
                       Arguments(<<"a">>, <<"b">>, None, <<>>, None), zero)
          [] b = <<AsyncDef>> ->
               DefNode("AsyncFunctionDef", n, "k",
                       Arguments(<<>>, <<>>, None, <<>>, None), zero)
          [] b = <<NestedImport>> ->
               DefNode("FunctionDef", n, "g",
                       Arguments(<<>>, <<>>, None, <<>>, None),
                       <<ImportNode(n, <<Alias("n", None)>>)>>)
          [] b = <<ImportAtom>> ->
               ImportFromNode(n, "a", <<Alias("*", None)>>)
          [] b = <<ImportOs>> -> ImportNode(n, <<Alias("os", None)>>)
          [] b = <<FromSysImportPath>> ->
               ImportFromNode(n, "sys", <<Alias("path", None)>>)
          [] b = <<ImportAliased>> ->
               ImportNode(n, <<Alias("a", "b"), Alias("c", None)>>)
          [] b = <<FromAliased>> ->
               ImportFromNode(n, "m", <<Alias("a", "c"), Alias("b", None)>>)
          [] OTHER -> ExprNode(n, None)

RECURSIVE Nodes(_, _)
Nodes(lines, n) ==
    IF n > Len(lines) THEN <<>>
    ELSE (IF strip(CodePart(lines[n])) = <<>> THEN <<>>
          ELSE <<NodeOf(lines[n], n)>>) \o Nodes(lines, n + 1)

SyntaxDiagnostic == "invalid syntax (<unknown>)"

\* ast.parse(code): the module's statements in source order, a SyntaxError,
\* or (text too deeply nested for the AST builder) a RecursionError.
ast_parse(code) ==
    LET lines == split(translate_newlines(code))
    IN  IF \E i \in 1..Len(lines) : ~LineParses(lines[i])
        THEN Raise("SyntaxError", SyntaxDiagnostic)
        ELSE IF \E i \in 1..Len(lines) : \E j \in 1..Len(CodePart(lines[i])) :
                    CodePart(lines[i])[j] = DeepAtom
        THEN Raise("RecursionError", "maximum recursion depth exceeded")
        ELSE Ret(Nodes(lines, 1))

\* The statements nested directly in the nodes of one level, in order
RECURSIVE ChildNodes(_)
ChildNodes(level) ==
    IF level = <<>> THEN <<>>
    ELSE Head(level).body \o ChildNodes(Tail(level))

\* ast.walk(tree) below the Module node: breadth first, every node of a
\* level comes before any node of the next level.
RECURSIVE ast_walk(_)
ast_walk(level) ==
    IF level = <<>> THEN <<>> ELSE level \o ast_walk(ChildNodes(level))

\* ast.get_docstring(node)
get_docstring(node) ==
    IF node.body # <<>> /\ node.body[1].type = "Expr"
    THEN node.body[1].str ELSE None

RECURSIVE SelectType(_, _)
SelectType(nodes, t) ==
    IF nodes = <<>> THEN <<>>
    ELSE (IF Head(nodes).type \in t THEN <<Head(nodes)>> ELSE <<>>)
         \o SelectType(Tail(nodes), t)

\* ------------------------------------------------------ CodeTools: tables
language_extensions ==
    [e \in {".py", ".js", ".ts", ".java", ".cpp", ".c", ".cs", ".php", ".rb",
            ".go", ".rs", ".swift", ".kt", ".scala", ".html", ".css", ".sql",
            ".sh", ".r", ".m"} |->
        CASE e = ".py" -> "python"      [] e = ".js" -> "javascript"
          [] e = ".ts" -> "typescript"  [] e = ".java" -> "java"
          [] e = ".cpp" -> "cpp"        [] e = ".c" -> "c"
          [] e = ".cs" -> "csharp"      [] e = ".php" -> "php"
          [] e = ".rb" -> "ruby"        [] e = ".go" -> "go"
          [] e = ".rs" -> "rust"        [] e = ".swift" -> "swift"
          [] e = ".kt" -> "kotlin"      [] e = ".scala" -> "scala"
          [] e = ".html" -> "html"      [] e = ".css" -> "css"
          [] e = ".sql" -> "sql"        [] e = ".sh" -> "bash"
          [] e = ".r" -> "r"            [] e = ".m" -> "matlab"]

LanguageTags == {language_extensions[e] : e \in DOMAIN language_extensions}
                    \cup {"text"}

\* lower that leaves the case as it is
lower_Identity(s) == s

\* str.lower() on a file suffix
lower(s) ==
    CASE s = ".PY" -> ".py"
      [] s = ".Py" -> ".py"
      [] s = ".JS" -> ".js"
      [] s = ".TS" -> ".ts"
      [] s = ".TXT" -> ".txt"
      [] OTHER -> s

\* A path's final component is a sequence of segments: the stem (what stands
\* before the first dot, possibly empty), then one segment per dot, the dot
\* included: "a.tar.gz" is <<"a", ".tar", ".gz">>, ".py" is <<"", ".py">>.
ExtSegments == {".py", ".PY", ".Py", ".ts", ".TS", ".gz", ".txt", "."}

PathNames ==
    {<<stem>> \o exts :
        stem \in {"", "f"},
        exts \in UNION {[1..n -> ExtSegments] : n \in 0..MaxSegments}}

\* pathlib's suffix: the name from its last dot on, unless that dot is the
\* first or the last character of the name.
suffix(path) ==
    LET name == path.name
        n == Len(name)
    IN  IF n >= 2 /\ name[n] # "." /\ ~(n = 2 /\ name[1] = "")
        THEN name[n] ELSE ""

detect_language(file_path) ==
    LET ext == lower(suffix(file_path))
    IN  IF ext \in DOMAIN language_extensions
        THEN language_extensions[ext] ELSE "text"

\* --------------------------------------------------- CodeTools: functions
\* The atoms re.match(r'def\s+(\w+)\s*\(([^)]*)\):', ...) matches at the
\* start of a line
DefLineAtoms == {DefAtom, DefAdd, DefDoc, DefPosOnly, NestedImport}

\* group(1) of the match
FallbackName(a) ==
    CASE a = DefAtom -> "f"
      [] a = DefAdd -> "add"
      [] a = DefDoc -> "h"
      [] a = DefPosOnly -> "p"
      [] a = NestedImport -> "g"

\* group(2) of the match, split on ',' and stripped
FallbackArgs(a) ==
    CASE a = DefAtom -> <<"a">>
      [] a = DefAdd -> <<"a", "b">>
      [] a = DefDoc -> <<"a", "b=1", "*c", "d", "**e">>
      [] a = DefPosOnly -> <<"a", "/", "b">>
      [] a = NestedImport -> <<>>

RECURSIVE FallbackFunctions(_, _)
FallbackFunctions(lines, i) ==
    IF i > Len(lines) THEN <<>>
    ELSE (IF strip(lines[i]) # <<>> /\ Head(strip(lines[i])) \in DefLineAtoms
          THEN <<[name |-> FallbackName(Head(strip(lines[i]))), line |-> i,
                  args |-> FallbackArgs(Head(strip(lines[i]))),
                  docstring |-> None]>>
          ELSE <<>>) \o FallbackFunctions(lines, i + 1)

RECURSIVE Descriptors(_)
Descriptors(nodes) ==
    IF nodes = <<>> THEN <<>>
    ELSE <<[name |-> Head(nodes).name, line |-> Head(nodes).lineno,
            args |-> Head(nodes).args.args,
            docstring |-> get_docstring(Head(nodes))]>>
         \o Descriptors(Tail(nodes))

_find_python_functions(code) ==
    LET tree == ast_parse(code)
    IN  IF ~tree.raised
        THEN Ret(Descriptors(SelectType(ast_walk(tree.val), {"FunctionDef"})))
        ELSE IF tree.exc = "SyntaxError"
        THEN Ret(FallbackFunctions(split(code), 1))
        ELSE tree

\* find_functions that runs the Python extractor whatever the language
find_functions_AnyLanguage(code, lang) == _find_python_functions(code)

find_functions(code, lang) ==
    IF lang = "python" THEN _find_python_functions(code) ELSE Ret(<<>>)

\* ----------------------------------------------------- CodeTools: imports
\* the names an import binds: the alias target where there is one
AliasNames_Targets(aliases) ==
    [i \in 1..Len(aliases) |->
        IF aliases[i].asname # None THEN aliases[i].asname
        ELSE aliases[i].name]

\* [alias.name for alias in node.names]
RECURSIVE AliasNames(_)
AliasNames(aliases) ==
    IF aliases = <<>> THEN <<>>
    ELSE <<Head(aliases).name>> \o AliasNames(Tail(aliases))

\* f"import {alias.name}" for each alias of an Import node
RECURSIVE ImportEntries(_)
ImportEntries(names) ==
    IF names = <<>> THEN <<>>
    ELSE <<<<"import ", Head(names)>>>> \o ImportEntries(Tail(names))

\* f"from {module} import {', '.join(names)}"
FromEntry(module, names) == <<"from ", module, " import ", names>>

RECURSIVE ImportStrings(_)
ImportStrings(nodes) ==
    IF nodes = <<>> THEN <<>>
    ELSE (IF Head(nodes).type = "Import"
          THEN ImportEntries(AliasNames(Head(nodes).names))
          ELSE <<FromEntry(Head(nodes).module, AliasNames(Head(nodes).names))>>)
         \o ImportStrings(Tail(nodes))

\* The atoms the anchored import pattern matches at the start of a line
ImportLineAtoms ==
    {ImportAtom, ImportOs, FromSysImportPath, ImportAliased, FromAliased,
     JsImport}

IsImportLine(stripped) ==
    stripped # <<>> /\ Head(stripped) \in ImportLineAtoms

\* a fallback that gives up at the first line the parser rejects
FallbackImports_UntilBadLine(lines, i) ==
    LET bad == {j \in 1..Len(lines) : ~LineParses(lines[j])}
        last == IF bad = {} THEN Len(lines)
                ELSE (CHOOSE j \in bad : \A k \in bad : j <= k) - 1
    IN  SelectSeq([j \in 1..last |-> strip(lines[j])], IsImportLine)

RECURSIVE FallbackImports(_, _)
FallbackImports(lines, i) ==
    IF i > Len(lines) THEN <<>>
    ELSE (IF IsImportLine(strip(lines[i]))
          THEN <<strip(lines[i])>> ELSE <<>>)
         \o FallbackImports(lines, i + 1)

_extract_python_imports(code) ==
    LET tree == ast_parse(code)
    IN  IF ~tree.raised
        THEN Ret(ImportStrings(SelectType(ast_walk(tree.val),
                                          {"Import", "ImportFrom"})))
        ELSE IF tree.exc = "SyntaxError"
        THEN Ret(FallbackImports(split(code), 1))
        ELSE tree

\* What pattern p of import_patterns matches inside one atom: the matched
\* substring, or None.
\*   1  import\s+.*?from\s+['"][^'"]+['"];?
\*   2  import\s+.*?;?          (the lazy tail matches nothing)
\*   3  const\s+.*?=\s+require\s*\(['"][^'"]+['"]\);?
\*   4, 5  the same with let and var
PatternMatch(p, a) ==
    CASE p = 1 /\ a = JsImport -> JsImport
      [] p = 2 /\ a \in {ImportAtom, ImportOs, FromSysImportPath,
                         ImportAliased, FromAliased, NestedImport, JsImport}
             -> "import "
      [] p = 3 /\ a = JsRequire -> JsRequire
      [] OTHER -> None

\* re.findall(pattern, code, re.MULTILINE)
RECURSIVE findall(_, _)
findall(p, code) ==
    IF code = <<>> THEN <<>>
    ELSE (IF PatternMatch(p, Head(code)) # None
          THEN <<PatternMatch(p, Head(code))>> ELSE <<>>)
         \o findall(p, Tail(code))

\* The loop over import_patterns: the matches of one pattern after those
\* of the patterns before it.
RECURSIVE JsMatches(_, _)
JsMatches(code, p) ==
    IF p > 5 THEN <<>> ELSE findall(p, code) \o JsMatches(code, p + 1)

_extract_js_imports(code) == Ret(JsMatches(code, 1))

extract_imports(code, lang) ==
    IF lang = "python" THEN _extract_python_imports(code)
    ELSE IF lang \in {"javascript", "typescript"} THEN _extract_js_imports(code)
    ELSE Ret(<<>>)

\* ------------------------------------------------------ CodeTools: syntax
_validate_python_syntax(code) ==
    LET tree == ast_parse(code)
    IN  IF ~tree.raised THEN Ret([is_valid |-> TRUE, error |-> None])
        ELSE IF tree.exc = "SyntaxError"
        THEN Ret([is_valid |-> FALSE, error |-> tree.msg])
        ELSE tree

\* validate_syntax that reports every text of every language valid
validate_syntax_AlwaysValid(code, lang) == Ret([is_valid |-> TRUE, error |-> None])

\* validate_syntax that runs the Python parser whatever the language
validate_syntax_ParsesAll(code, lang) == _validate_python_syntax(code)

validate_syntax(code, lang) ==
    IF lang = "python" THEN _validate_python_syntax(code)
    ELSE Ret([is_valid |-> TRUE, error |-> None])

\* -------------------------------------------------- CodeTools: complexity
\* a code test that forgets to leave the comment lines out
IsCodeLine_CountsComments(line) == strip(line) # <<>>

IsCodeLine(line) == strip(line) # <<>> /\ ~startswith(strip(line), "#")
IsCommentLine(line) == startswith(strip(line), "#")

CodeLineCount(lines) ==
    Cardinality({i \in 1..Len(lines) : IsCodeLine(lines[i])})
CommentLineCount(lines) ==
    Cardinality({i \in 1..Len(lines) : IsCommentLine(lines[i])})

\* Python's a / b on integers: a float, or ZeroDivisionError.
TrueDiv(a, b) ==
    IF b = 0 THEN Raise("ZeroDivisionError", "division by zero")
    ELSE Ret([num |-> a, den |-> b])

\* the denominator without the max(..., 1) guard
RatioDenominator_NoGuard(code_lines) == code_lines

RatioDenominator(code_lines) == Max(code_lines, 1)

\* metrics that do not look for functions
estimate_complexity_NoFunctions(code, lang) ==
    LET lines == split(code)
        ratio == TrueDiv(CommentLineCount(lines),
                         RatioDenominator(CodeLineCount(lines)))
    IN  Ret([total_lines |-> Len(lines),
             code_lines |-> CodeLineCount(lines),
             comment_lines |-> CommentLineCount(lines),
             function_count |-> 0,
             comment_ratio |-> ratio.val])

estimate_complexity(code, lang) ==
    LET lines == split(code)
        total_lines == Len(lines)
        code_lines == CodeLineCount(lines)
        comment_lines == CommentLineCount(lines)
        functions == find_functions(code, lang)
        ratio == TrueDiv(comment_lines, RatioDenominator(code_lines))
    IN  IF functions.raised THEN functions
        ELSE IF ratio.raised THEN ratio
        ELSE Ret([total_lines |-> total_lines,
                  code_lines |-> code_lines,
                  comment_lines |-> comment_lines,
                  function_count |-> Len(functions.val),
                  comment_ratio |-> ratio.val])

\* ------------------------------------------------------------- file system
\* One entry of the tree under the analysed root, as rglob('*') yields it.
\*   kind   "file", "dir" or "link" (a dangling symbolic link)
\*   suffix the entry's extension
\*   stat   outcome of os.stat on the entry: "ok", "ENOENT" (dangling link)
\*          or "EACCES" (parent directory not searchable)
\*   read   outcome of reading it as UTF-8 text: "ok" or the exception raised
\*   code   its text
Entry(k, sfx, st, rd, txt) ==
    [kind |-> k, suffix |-> sfx, stat |-> st, read |-> rd, code |-> txt]

EntryKinds ==
    { Entry("file", ".py", "ok", "ok", <<DefAtom, "\n", "#">>),
      Entry("file", ".py", "ok", "ok", <<"(", "\n", "x">>),
      Entry("file", ".py", "ok", "PermissionError", <<>>),
      Entry("file", ".py", "ok", "ok", <<DeepAtom>>),
      Entry("file", ".PY", "ok", "ok", <<>>),
      Entry("file", ".js", "ok", "ok", <<"(">>),
      Entry("file", ".txt", "ok", "ok", <<"x">>),
      Entry("file", ".py", "EACCES", "PermissionError", <<>>),
      Entry("link", ".py", "ENOENT", "FileNotFoundError", <<>>),
      Entry("dir", "", "ok", "IsADirectoryError", <<>>) }

Trees == UNION {[1..n -> EntryKinds] : n \in 0..MaxEntries}

\* The analysed root: a directory that can be listed
RootEntry == Entry("dir", "", "ok", "IsADirectoryError", <<>>)
RootPath == [id |-> 0, name |-> <<"root">>]

\* The path of the i-th entry of tree t
PathOf(t, i) ==
    [id |-> i,
     name |-> IF t[i].suffix = "" THEN <<"f">> ELSE <<"f", t[i].suffix>>]

\* Path.is_file(): errors that mean "does not exist" give False, any other
\* OSError is re-raised.
is_file(entry) ==
    IF entry.stat = "EACCES" THEN Raise("PermissionError", "Permission denied")
    ELSE IF entry.stat = "ENOENT" THEN Ret(FALSE)
    ELSE Ret(entry.kind = "file")

\* Path.is_dir(), with the error handling of is_file
is_dir(entry) ==
    IF entry.stat = "EACCES" THEN Raise("PermissionError", "Permission denied")
    ELSE IF entry.stat = "ENOENT" THEN Ret(FALSE)
    ELSE Ret(entry.kind = "dir")

\* read_text that hands the text over as stored, line terminators untouched
read_text_Untranslated(entry) ==
    IF entry.read = "ok" THEN Ret(entry.code)
    ELSE Raise(entry.read, entry.read)

\* Path.read_text(encoding='utf-8'): text mode, universal newlines
read_text(entry) ==
    IF entry.read = "ok" THEN Ret(translate_newlines(entry.code))
    ELSE Raise(entry.read, entry.read)

\* Path.stat().st_size; vanished: the file was removed after it was read.
st_size(entry, vanished) ==
    IF vanished THEN Raise("FileNotFoundError", "No such file or directory")
    ELSE Ret(Len(entry.code))

\* ------------------------------------------------------------ collaborator
\* The four places analyze_file asks the text generator.
Calls == {"insights", "improvements", "docs", "security"}

\* What the underlying model call does: returns text or raises.
LlmOutcomes ==
    { Ret(<<" ", "Consider input validation.">>),
      Ret(<<"No security issues", " found.">>),
      Raise("RuntimeError", "llama failure") }

\* generate_response that lets the failure of the model call through
generate_response_Raises(r) == IF r.raised THEN r ELSE Ret(strip(r.val))

\* CodeAssistant.generate_response: the stripped text, or a message text
\* when the model call raised.
generate_response(r) ==
    IF r.raised THEN Ret(<<"Error generating response: ", r.msg>>)
    ELSE Ret(strip(r.val))

get_ai_insights(r) ==
    LET g == generate_response(r)
    IN  IF g.raised THEN <<"AI analysis failed: ", g.msg>> ELSE g.val

get_improvement_suggestions(r) ==
    LET g == generate_response(r)
    IN  IF g.raised THEN <<"Improvement analysis failed: ", g.msg>> ELSE g.val

generate_documentation(r) ==
    LET g == generate_response(r)
    IN  IF g.raised THEN <<"Documentation generation failed: ", g.msg>>
        ELSE g.val

security_patterns ==
    << <<"eval", "Use of eval() can be dangerous">>,
       <<"exec", "Use of exec() can be dangerous">>,
       <<"os.system", "Use of os.system() can be vulnerable to injection">>,
       <<"subprocess.call",
         "Check subprocess.call() for injection vulnerabilities">>,
       <<"pickle.loads", "Pickle deserialization can be dangerous">>,
       <<"yaml.load", "Use yaml.safe_load() instead of yaml.load()">>,
       <<"shell=True", "subprocess with shell=True can be vulnerable">>,
       <<"input(", "raw_input/input can be dangerous in Python 2">> >>

\* The substrings of the list an atom holds; the atoms of the other
\* alphabets hold none.
PatternsOf(a) ==
    CASE a = "eval(x)" -> {"eval"}
      [] a = "executor" -> {"exec"}
      [] a = "'os.system'" -> {"os.system"}
      [] a = "subprocess.call(x, shell=True)" -> {"subprocess.call", "shell=True"}
      [] a = "input()" -> {"input("}
      [] a = "pickle.loads(yaml.load(f))" -> {"pickle.loads", "yaml.load"}
      [] OTHER -> {}

\* a containment test that looks at code only, not at comments
PatternIn_CodeOnly(pattern, txt) ==
    \E i \in 1..Len(txt) :
        /\ pattern \in PatternsOf(txt[i])
        /\ \A j \in 1..(i - 1) :
               txt[j] = "#" => \E k \in (j + 1)..(i - 1) : txt[k] = "\n"

\* pattern in code
PatternIn(pattern, txt) ==
    \E i \in 1..Len(txt) : pattern \in PatternsOf(txt[i])

RECURSIVE StaticFindings(_, _)
StaticFindings(txt, i) ==
    IF i > Len(security_patterns) THEN <<>>
    ELSE (IF PatternIn(security_patterns[i][1], txt)
          THEN <<security_patterns[i][2]>> ELSE <<>>)
         \o StaticFindings(txt, i + 1)

Contains(txt, marker) == \E i \in 1..Len(txt) : txt[i] = marker

\* a scan that appends the returned text whatever it contains
scan_security_issues_IgnoresMarker(txt, lang, r) ==
    LET static == IF lang = "python" THEN StaticFindings(txt, 1) ELSE <<>>
        g == generate_response(r)
    IN  IF g.raised THEN static
        ELSE Append(static, <<"AI Security Analysis: ", g.val>>)

scan_security_issues(txt, lang, r) ==
    LET static == IF lang = "python" THEN StaticFindings(txt, 1) ELSE <<>>
        g == generate_response(r)
    IN  IF g.raised THEN static
        ELSE IF ~Contains(g.val, "No security issues")
        THEN Append(static, <<"AI Security Analysis: ", g.val>>)
        ELSE static

\* ------------------------------------------------------------ CodeAnalyzer
\* an allow-list that takes text files too
code_extensions_Broader ==
    {".py", ".js", ".ts", ".java", ".cpp", ".c", ".cs", ".php", ".rb", ".go",
     ".rs", ".swift", ".kt", ".scala", ".html", ".css", ".sql", ".sh", ".r",
     ".m", ".txt"}

code_extensions ==
    {".py", ".js", ".ts", ".java", ".cpp", ".c", ".cs", ".php", ".rb", ".go",
     ".rs", ".swift", ".kt", ".scala", ".html", ".css", ".sql", ".sh", ".r",
     ".m"}

\* is_code_file without .lower()
is_code_file_CaseSensitive(file_path) == suffix(file_path) \in code_extensions

is_code_file(file_path) == lower(suffix(file_path)) \in code_extensions

Flags == [deep_analysis : BOOLEAN, generate_docs : BOOLEAN,
          security_scan : BOOLEAN]

ErrorRecord(e, file_path) == [error |-> e.msg, file_path |-> file_path]

\* syntax_error stored whatever the verdict
SyntaxFields_AlwaysError(v) ==
    [syntax_valid |-> v.is_valid, syntax_error |-> v.error]

SyntaxFields(v) ==
    IF ~v.is_valid
    THEN [syntax_valid |-> v.is_valid, syntax_error |-> v.error]
    ELSE [syntax_valid |-> v.is_valid]

\* optional fields where generate_docs is ignored and deep_analysis also
\* switches the documentation on
OptionalFields_DocsWithDeep(txt, lang, fl, llm) ==
    (IF fl.deep_analysis
     THEN [ai_insights |-> get_ai_insights(llm["insights"]),
           improvement_suggestions |->
               get_improvement_suggestions(llm["improvements"]),
           generated_docs |-> generate_documentation(llm["docs"])]
     ELSE <<>>)
    @@ (IF fl.security_scan
        THEN [security_issues |->
                  scan_security_issues(txt, lang, llm["security"])]
        ELSE <<>>)

OptionalFields(txt, lang, fl, llm) ==
    (IF fl.deep_analysis
     THEN [ai_insights |-> get_ai_insights(llm["insights"]),
           improvement_suggestions |->
               get_improvement_suggestions(llm["improvements"])]
     ELSE <<>>)
    @@ (IF fl.generate_docs
        THEN [generated_docs |-> generate_documentation(llm["docs"])]
        ELSE <<>>)
    @@ (IF fl.security_scan
        THEN [security_issues |->
                  scan_security_issues(txt, lang, llm["security"])]
        ELSE <<>>)

\* The body of the try block of analyze_file: the finished results, or the
\* first exception raised on the way.
AnalyzeFileBody(entry, file_path, fl, llm, vanished) ==
    LET rd == read_text(entry)
        lang == detect_language(file_path)
        size == st_size(entry, vanished)
        cx == estimate_complexity(rd.val, lang)
        im == extract_imports(rd.val, lang)
        fn == find_functions(rd.val, lang)
        sv == validate_syntax(rd.val, lang)
    IN  IF rd.raised THEN rd
        ELSE IF size.raised THEN size
        ELSE IF cx.raised THEN cx
        ELSE IF im.raised THEN im
        ELSE IF fn.raised THEN fn
        ELSE IF sv.raised THEN sv
        ELSE Ret([file_path |-> file_path,
                  language |-> lang,
                  file_size |-> size.val,
                  line_count |-> Len(split(rd.val)),
                  complexity |-> cx.val,
                  imports |-> im.val,
                  functions |-> fn.val]
                 @@ SyntaxFields(sv.val)
                 @@ OptionalFields(rd.val, lang, fl, llm))

\* analyze_file whose handler keeps what was computed before the fault
analyze_file_KeepsPartial(entry, file_path, fl, llm, vanished) ==
    LET body == AnalyzeFileBody(entry, file_path, fl, llm, vanished)
    IN  IF body.raised
        THEN Ret([error |-> body.msg, file_path |-> file_path,
                  language |-> detect_language(file_path)])
        ELSE body

analyze_file(entry, file_path, fl, llm, vanished) ==
    LET body == AnalyzeFileBody(entry, file_path, fl, llm, vanished)
    IN  IF body.raised THEN Ret(ErrorRecord(body, file_path)) ELSE body

\* requests made whether or not the analysis steps before them completed
CollaboratorCalls_BeforeAnalysis(result, fl) ==
    (IF fl.deep_analysis THEN <<"insights", "improvements">> ELSE <<>>)
    \o (IF fl.generate_docs THEN <<"docs">> ELSE <<>>)
    \o (IF fl.security_scan THEN <<"security">> ELSE <<>>)

\* The requests an analyze_file call that returned result has made to the
\* text generator, in order: none when a step of lines 35-52 raised and the
\* handler of line 71 built the result, else those of lines 57-67.
CollaboratorCalls(result, fl) ==
    IF "error" \in DOMAIN result THEN <<>>
    ELSE (IF fl.deep_analysis THEN <<"insights", "improvements">> ELSE <<>>)
         \o (IF fl.generate_docs THEN <<"docs">> ELSE <<>>)
         \o (IF fl.security_scan THEN <<"security">> ELSE <<>>)

\* dict.get(key, default)
Get(d, key, default) == IF key \in DOMAIN d THEN d[key] ELSE default

\* f"{file_path}: {failure}"
IssueString(file_path, failure) == <<file_path, ": ", failure>>

\* a histogram update that stores 1 instead of adding 1
Increment_Reset(hist, key) ==
    IF key \in DOMAIN hist THEN [hist EXCEPT ![key] = 1]
    ELSE hist @@ (key :> 1)

Increment(hist, key) ==
    IF key \in DOMAIN hist THEN [hist EXCEPT ![key] = @ + 1]
    ELSE hist @@ (key :> 1)

\* The try block of lines 116-130 on r, the outcome of the analyze_file
\* call of line 117: what each local becomes.
\* line 118
AppendReport(reports, r) == IF r.raised THEN reports ELSE Append(reports, r.val)

\* line 120
CountFile(n, r) == IF r.raised THEN n ELSE n + 1

\* line 121
AddLines(n, r) == IF r.raised THEN n ELSE n + Get(r.val, "line_count", 0)

\* lines 123-124
CountLanguage(hist, r) ==
    IF r.raised THEN hist
    ELSE Increment(hist, Get(r.val, "language", "unknown"))

\* lines 126-127, and line 130 when the call raised
RecordIssue(iss, file_path, r) ==
    IF r.raised THEN Append(iss, IssueString(file_path, r.msg))
    ELSE IF ~Get(r.val, "syntax_valid", TRUE)
    THEN Append(iss, IssueString(file_path,
                         Get(r.val, "syntax_error", "Syntax error")))
    ELSE iss

\* how often the handler of lines 129-130 ran
CountCaught(n, r) == IF r.raised THEN n + 1 ELSE n

\* ------------------------------------------------------------------ state
VARIABLES
    code,       \* CodeTools call: the source text argument
    language,   \* CodeTools call: the language argument
    file_path,  \* CodeTools call: the path argument, or None
    op,         \* CodeTools call: the method called, "none" before the call
    out,        \* CodeTools call: its outcome (Ret or Raise)
    pc,         \* CodeAnalyzer: "idle", "dir_loop", "dir_returned",
                \*   "dir_raised" or "file_returned"
    tree,       \* the entries under the root, in enumeration order
    flags,      \* deep_analysis / generate_docs / security_scan of the call
    idx,        \* analyze_directory: position of the rglob iterator
    files_analyzed, \* analyze_directory: results['files_analyzed']
    total_files,    \* analyze_directory: local total_files
    total_lines,    \* analyze_directory: local total_lines
    languages,      \* analyze_directory: local languages
    issues,         \* analyze_directory: local issues
    caught,         \* analyze_directory: how often line 129 caught a failure
    results,        \* what analyze_directory returned (summary), or None
    report,         \* what a direct analyze_file call returned, or None
    collab,         \* what the text generator did in that call, or None
    calls,          \* the requests made to the text generator by the current
                    \*   analyze_file or analyze_directory call, in order
    max_history,      \* ConversationMemory.max_history
    current_session,  \* ConversationMemory.current_session
    conversations,    \* ConversationMemory.conversations
    previous    \* the analyzer call before the current one: its method, path,
                \*   result and the text generator's answers; <<>> if none

toolVars == <<code, language, file_path, op, out>>
memVars == <<max_history, current_session, conversations>>
dirVars == <<idx, files_analyzed, total_files, total_lines, languages, issues,
             caught, results>>
vars == <<code, language, file_path, op, out, pc, tree, flags, idx,
          files_analyzed, total_files, total_lines, languages, issues, caught,
          results, report, collab, calls, max_history, current_session,
          conversations, previous>>

ToolLanguages == {"python", "javascript", "java", "text"}

NoFlags == [deep_analysis |-> FALSE, generate_docs |-> FALSE,
            security_scan |-> FALSE]

\* The model outcomes a call with flags fl can observe; places the flags
\* switch off are never asked.
LlmChoices(fl) ==
    {llm \in [Calls -> LlmOutcomes] :
        /\ ~fl.deep_analysis =>
               /\ llm["insights"] = Raise("RuntimeError", "llama failure")
               /\ llm["improvements"] = Raise("RuntimeError", "llama failure")
        /\ ~fl.generate_docs =>
               llm["docs"] = Raise("RuntimeError", "llama failure")
        /\ ~fl.security_scan =>
               llm["security"] = Raise("RuntimeError", "llama failure")}

AnalyzerFresh ==
    /\ pc = "idle"
    /\ idx = 0
    /\ files_analyzed = <<>>
    /\ total_files = 0
    /\ total_lines = 0
    /\ languages = <<>>
    /\ issues = <<>>
    /\ caught = 0
    /\ results = None
    /\ report = None
    /\ calls = <<>>
    /\ previous = <<>>

\* No conversation memory in use
MemoryIdle ==
    /\ max_history = 0
    /\ current_session = <<>>
    /\ conversations = <<>>

AnalyzerIdle ==
    /\ AnalyzerFresh
    /\ MemoryIdle
    /\ collab = None

ToolsIdle ==
    /\ op = "none"
    /\ out = Ret(None)

\* The languages the texts of the import alphabets are analysed as
ImportLanguages == {"python", "javascript", "typescript", "go"}

InitTools ==
    /\ \/ code \in Texts /\ language \in ToolLanguages
       \/ code \in PyTexts \cup JsTexts /\ language \in ImportLanguages
       \/ code \in LineTexts \cup {TwoImportsText, FiveLineText}
          /\ language = "python"
    /\ file_path = None
    /\ ToolsIdle
    /\ tree = <<>>
    /\ flags = NoFlags
    /\ AnalyzerIdle

CallEstimateComplexity ==
    /\ op = "none"
    /\ op' = "estimate_complexity"
    /\ out' = estimate_complexity(code, language)
    /\ UNCHANGED <<code, language, file_path, pc, tree, flags, dirVars, report,
                   collab, calls,
                   memVars, previous>>

CallValidateSyntax ==
    /\ op = "none"
    /\ op' = "validate_syntax"
    /\ out' = validate_syntax(code, language)
    /\ UNCHANGED <<code, language, file_path, pc, tree, flags, dirVars, report,
                   collab, calls,
                   memVars, previous>>

CallFindFunctions ==
    /\ op = "none"
    /\ op' = "find_functions"
    /\ out' = find_functions(code, language)
    /\ UNCHANGED <<code, language, file_path, pc, tree, flags, dirVars, report,
                   collab, calls,
                   memVars, previous>>

CallExtractImports ==
    /\ op = "none"
    /\ op' = "extract_imports"
    /\ out' = extract_imports(code, language)
    /\ UNCHANGED <<code, language, file_path, pc, tree, flags, dirVars, report,
                   collab, calls,
                   memVars, previous>>

\* An extension the detector maps to tag lang (".txt" for "text")
SuffixFor(lang) ==
    IF lang = "text" THEN ".txt"
    ELSE CHOOSE e \in DOMAIN language_extensions : language_extensions[e] = lang

\* analyze_file on a readable file of that language holding the text
CallAnalyzeFile ==
    /\ op = "none"
    /\ op' = "analyze_file"
    /\ \E llm \in LlmChoices(flags) : \E vanished \in BOOLEAN :
         LET entry == Entry("file", SuffixFor(language), "ok", "ok", code)
         IN  \E r \in {analyze_file(entry, PathOf(<<entry>>, 1), flags, llm,
                                      vanished)} :
                 /\ out' = r
                 /\ calls' = CollaboratorCalls(r.val, flags)
    /\ UNCHANGED <<code, language, file_path, pc, tree, flags, dirVars, report,
                   collab, memVars, previous>>

NextTools ==
    \/ CallEstimateComplexity
    \/ CallValidateSyntax
    \/ CallFindFunctions
    \/ CallExtractImports
    \/ CallAnalyzeFile

SpecTools == InitTools /\ [][NextTools]_vars

\* ------------------------------------------------------------ security scan
\* What the model call can do when the scan asks: the outcomes above, a
\* lower-case variant of the marker, and a text of white space only.
ScanOutcomes ==
    LlmOutcomes \cup {Ret(<<"no security issues">>), Ret(<<" ">>)}

InitScan ==
    /\ code \in SecTexts
    /\ language \in {"python", "javascript"}
    /\ file_path = None
    /\ ToolsIdle
    /\ tree = <<>>
    /\ flags = NoFlags
    /\ AnalyzerIdle

\* scan_security_issues(code, language); collab keeps what the model call did
CallScanSecurityIssues ==
    /\ op = "none"
    /\ op' = "scan_security_issues"
    /\ \E o \in ScanOutcomes :
         /\ out' = Ret(scan_security_issues(code, language, o))
         /\ collab' = o
    /\ calls' = <<"security">>
    /\ UNCHANGED <<code, language, file_path, pc, tree, flags, dirVars, report,
                   memVars, previous>>

NextScan == CallScanSecurityIssues

SpecScan == InitScan /\ [][NextScan]_vars

\* ------------------------------------------------------- paths to language
InitPaths ==
    /\ code = <<>>
    /\ language = "text"
    /\ file_path \in [id : {1}, name : PathNames]
    /\ ToolsIdle
    /\ tree = <<>>
    /\ flags = NoFlags
    /\ AnalyzerIdle

CallDetectLanguage ==
    /\ op = "none"
    /\ op' = "detect_language"
    /\ out' = Ret(detect_language(file_path))
    /\ UNCHANGED <<code, language, file_path, pc, tree, flags, dirVars, report,
                   collab, calls,
                   memVars, previous>>

CallIsCodeFile ==
    /\ op = "none"
    /\ op' = "is_code_file"
    /\ out' = Ret(is_code_file(file_path))
    /\ UNCHANGED <<code, language, file_path, pc, tree, flags, dirVars, report,
                   collab, calls,
                   memVars, previous>>

NextPaths ==
    \/ CallDetectLanguage
    \/ CallIsCodeFile

SpecPaths == InitPaths /\ [][NextPaths]_vars

\* ---------------------------------------------------------- CodeAnalyzer
Init ==
    /\ code = <<>>
    /\ language = "python"
    /\ file_path = None
    /\ ToolsIdle
    /\ tree \in Trees
    /\ flags \in Flags
    /\ AnalyzerIdle

\* analyzer.analyze_file(path, flags) on one entry of the tree
FileCall(i, llm, vanished) ==
    /\ pc = "idle"
    /\ \E r \in {analyze_file(tree[i], PathOf(tree, i), flags, llm,
                               vanished)} :
           /\ report' = r.val
           /\ calls' = CollaboratorCalls(r.val, flags)
    /\ collab' = llm
    /\ pc' = "file_returned"
    /\ UNCHANGED <<tree, flags, dirVars, memVars, previous>>

AnalyzeFile ==
    /\ \E i \in 1..Len(tree) : \E llm \in LlmChoices(flags) :
       \E vanished \in BOOLEAN : FileCall(i, llm, vanished)
    /\ UNCHANGED toolVars

\* analyze_directory, lines 102-111: the accumulators
DirectoryCall ==
    /\ pc = "idle"
    /\ pc' = "dir_loop"
    /\ idx' = 1
    /\ files_analyzed' = <<>>
    /\ total_files' = 0
    /\ total_lines' = 0
    /\ languages' = <<>>
    /\ issues' = <<>>
    /\ caught' = 0
    /\ calls' = <<>>
    /\ UNCHANGED <<tree, flags, results, report, collab, memVars, previous>>

\* a start that keeps the totals the previous call left
DirBegin_KeepsTotals ==
    /\ pc = "idle"
    /\ pc' = "dir_loop"
    /\ idx' = 1
    /\ files_analyzed' = <<>>
    /\ issues' = <<>>
    /\ caught' = 0
    /\ calls' = <<>>
    /\ UNCHANGED <<toolVars, tree, flags, total_files, total_lines, languages,
                   results, report, collab, memVars, previous>>

DirBegin ==
    /\ DirectoryCall
    /\ UNCHANGED toolVars

\* One iteration whose entry fails the filter of line 115
DirSkip ==
    /\ pc = "dir_loop"
    /\ idx <= Len(tree)
    /\ LET f == is_file(tree[idx])
       IN  /\ ~f.raised
           /\ ~(f.val /\ is_code_file(PathOf(tree, idx)))
    /\ idx' = idx + 1
    /\ UNCHANGED <<toolVars, pc, tree, flags, files_analyzed, total_files,
                   total_lines, languages, issues, caught, results, report,
                   collab, calls,
                   memVars, previous>>

\* One iteration whose filter raises: line 115 is outside the try block,
\* the exception leaves analyze_directory.
DirFilterRaises ==
    /\ pc = "dir_loop"
    /\ idx <= Len(tree)
    /\ is_file(tree[idx]).raised
    /\ pc' = "dir_raised"
    /\ UNCHANGED <<toolVars, tree, flags, dirVars, report, collab, calls,
                   memVars, previous>>

\* One iteration on a matching file, lines 116-130
DirAnalyzeWith(llm, vanished) ==
    /\ pc = "dir_loop"
    /\ idx <= Len(tree)
    /\ ~is_file(tree[idx]).raised
    /\ is_file(tree[idx]).val
    /\ is_code_file(PathOf(tree, idx))
    /\ \E r \in {analyze_file(tree[idx], PathOf(tree, idx), flags, llm,
                               vanished)} :
           /\ files_analyzed' = AppendReport(files_analyzed, r)
           /\ total_files' = CountFile(total_files, r)
           /\ total_lines' = AddLines(total_lines, r)
           /\ languages' = CountLanguage(languages, r)
           /\ issues' = RecordIssue(issues, PathOf(tree, idx), r)
           /\ caught' = CountCaught(caught, r)
           /\ calls' = calls \o CollaboratorCalls(r.val, flags)
    /\ idx' = idx + 1
    /\ UNCHANGED <<toolVars, pc, tree, flags, results, report, collab, memVars,
                   previous>>

DirAnalyze ==
    \E o \in LlmOutcomes : \E vanished \in BOOLEAN :
        DirAnalyzeWith([c \in Calls |-> o], vanished)

\* analyze_directory, lines 132-141: the summary
DirFinish ==
    /\ pc = "dir_loop"
    /\ idx > Len(tree)
    /\ results' = [files_analyzed |-> files_analyzed,
                   summary |-> [total_files |-> total_files,
                                total_lines |-> total_lines,
                                languages |-> languages,
                                issues_found |-> Len(issues),
                                issues |-> issues]]
    /\ pc' = "dir_returned"
    /\ UNCHANGED <<toolVars, tree, flags, idx, files_analyzed, total_files,
                   total_lines, languages, issues, caught, report, collab, calls,
                   memVars, previous>>

Next ==
    \/ AnalyzeFile
    \/ DirBegin
    \/ DirSkip
    \/ DirFilterRaises
    \/ DirAnalyze
    \/ DirFinish

Spec == Init /\ [][Next]_vars

\* ------------------------------------------------------------ analyze_code
\* analyze_code(path, flags) on an entry that is a file, lines 24-25
AnalyzeCodeFile ==
    /\ op = "none"
    /\ \E i \in 1..Len(tree) :
         /\ ~is_file(tree[i]).raised
         /\ is_file(tree[i]).val
         /\ file_path' = PathOf(tree, i)
         /\ \E llm \in LlmChoices(flags) : \E vanished \in BOOLEAN :
                FileCall(i, llm, vanished)
    /\ op' = "analyze_code"
    /\ UNCHANGED <<code, language, out>>

\* analyze_code on the root directory, lines 26-27
AnalyzeCodeDirectory ==
    /\ op = "none"
    /\ ~is_file(RootEntry).raised
    /\ ~is_file(RootEntry).val
    /\ ~is_dir(RootEntry).raised
    /\ is_dir(RootEntry).val
    /\ file_path' = RootPath
    /\ DirectoryCall
    /\ op' = "analyze_code"
    /\ UNCHANGED <<code, language, out>>

\* analyze_code on an entry that is neither, lines 28-29
AnalyzeCodeNotFound ==
    /\ op = "none"
    /\ pc = "idle"
    /\ \E i \in 1..Len(tree) :
         /\ ~is_file(tree[i]).raised
         /\ ~is_file(tree[i]).val
         /\ ~is_dir(tree[i]).raised
         /\ ~is_dir(tree[i]).val
         /\ file_path' = PathOf(tree, i)
         /\ out' = Raise("ValueError", <<"Path not found: ", PathOf(tree, i)>>)
    /\ op' = "analyze_code"
    /\ pc' = "code_raised"
    /\ UNCHANGED <<code, language, tree, flags, dirVars, report, collab, calls,
                   memVars, previous>>

\* analyze_code on an entry whose is_file() raises, line 24
AnalyzeCodeFails ==
    /\ op = "none"
    /\ pc = "idle"
    /\ \E i \in 1..Len(tree) :
         /\ is_file(tree[i]).raised
         /\ file_path' = PathOf(tree, i)
         /\ out' = is_file(tree[i])
    /\ op' = "analyze_code"
    /\ pc' = "code_raised"
    /\ UNCHANGED <<code, language, tree, flags, dirVars, report, collab, calls,
                   memVars, previous>>

NextCode ==
    \/ AnalyzeCodeFile
    \/ AnalyzeCodeDirectory
    \/ AnalyzeCodeNotFound
    \/ AnalyzeCodeFails
    \/ DirSkip
    \/ DirFilterRaises
    \/ DirAnalyze
    \/ DirFinish

SpecCode == Init /\ [][NextCode]_vars

\* ------------------------------------------------------- repeated analyses
\* What the text generator answers during one analyzer call: the same
\* outcome at every place the flags let the call ask.
RerunAnswers(fl) ==
    {[c \in Calls |->
         IF \/ c \in {"insights", "improvements"} /\ fl.deep_analysis
            \/ c = "docs" /\ fl.generate_docs
            \/ c = "security" /\ fl.security_scan
         THEN o
         ELSE Raise("RuntimeError", "llama failure")] : o \in LlmOutcomes}

InitRerun ==
    /\ code = <<>>
    /\ language = "python"
    /\ file_path = None
    /\ ToolsIdle
    /\ tree \in Trees
    /\ flags \in Flags
    /\ AnalyzerFresh
    /\ MemoryIdle
    /\ collab \in RerunAnswers(flags)

\* The call the caller makes: any call first, then the first call again
Repeats(method, path) ==
    previous # <<>> =>
        /\ previous[1].method = method
        /\ previous[1].path = path

\* analyze_file on an entry whose file stays in place
RerunFile ==
    /\ \E i \in 1..Len(tree) :
         /\ Repeats("analyze_file", PathOf(tree, i))
         /\ FileCall(i, collab, FALSE)
    /\ UNCHANGED toolVars

\* analyze_directory on the root
RerunDirBegin ==
    /\ Repeats("analyze_directory", RootPath)
    /\ DirBegin

\* One iteration of analyze_directory on a matching file that stays in place
RerunDirAnalyze == DirAnalyzeWith(collab, FALSE)

\* The caller, after the first call ended, makes another one on the same
\* analyzer with the tree and the flags as they are; the text generator is
\* free to answer differently this time.
CallAgain ==
    /\ pc \in {"file_returned", "dir_returned", "dir_raised"}
    /\ previous = <<>>
    /\ previous' =
          << [method |-> IF pc = "file_returned" THEN "analyze_file"
                         ELSE "analyze_directory",
              path |-> IF pc = "file_returned" THEN report.file_path
                       ELSE RootPath,
              result |-> IF pc = "file_returned" THEN Ret(report)
                         ELSE IF pc = "dir_returned" THEN Ret(results)
                         ELSE Raise("PermissionError", "Permission denied"),
              answers |-> collab] >>
    /\ pc' = "idle"
    /\ collab' \in RerunAnswers(flags)
    /\ UNCHANGED <<toolVars, tree, flags, dirVars, report, calls, memVars>>

NextRerun ==
    \/ RerunFile
    \/ RerunDirBegin
    \/ DirSkip
    \/ DirFilterRaises
    \/ RerunDirAnalyze
    \/ DirFinish
    \/ CallAgain

SpecRerun == InitRerun /\ [][NextRerun]_vars

\* ------------------------------------------------------ ConversationMemory
\* The user messages of the exchanges; every answer is "ok".
Messages == {"hi", "help"}

\* The dict add_exchange builds, lines 38-42, without its wall-clock
\* timestamp
Exchange(user_input, assistant_response) ==
    [user |-> user_input, assistant |-> assistant_response]

\* s[-k:] of a Python list
LastSlice(s, k) ==
    IF k > 0 THEN SubSeq(s, Max(Len(s) - k, 0) + 1, Len(s))
    ELSE SubSeq(s, Max(0 - k, 0) + 1, Len(s))

\* What load_conversation can find at the path: nothing it can parse, a
\* JSON object without 'exchanges', or a saved conversation.
ConversationFiles ==
    {[kind |-> "unreadable", exchanges |-> <<>>],
     [kind |-> "other", exchanges |-> <<>>]}
    \cup {[kind |-> "conversation", exchanges |-> e] :
             e \in UNION {[1..n -> {Exchange(u, "ok") : u \in Messages}] :
                             n \in 0..MaxSession}}

\* ConversationMemory(max_history), no save path
InitMemory ==
    /\ code = <<>>
    /\ language = "text"
    /\ file_path = None
    /\ ToolsIdle
    /\ tree = <<>>
    /\ flags = NoFlags
    /\ AnalyzerFresh
    /\ collab = None
    /\ max_history \in 0..MaxHistory
    /\ current_session = <<>>
    /\ conversations = <<>>

add_exchange ==
    /\ Len(current_session) < MaxSession
    /\ \E u \in Messages :
         LET session == Append(current_session, Exchange(u, "ok"))
         IN  current_session' =
                 IF Len(session) > max_history
                 THEN LastSlice(session, max_history)
                 ELSE session
    /\ op' = "add_exchange"
    /\ out' = Ret(None)
    /\ UNCHANGED <<code, language, file_path, pc, tree, flags, dirVars, report,
                   collab, calls, max_history, conversations, previous>>

clear_session ==
    /\ Len(conversations) < MaxConversations
    /\ IF current_session # <<>>
       THEN /\ conversations' =
                  Append(conversations,
                         [exchanges |-> Len(current_session),
                          first_message |-> current_session[1].user])
            /\ current_session' = <<>>
       ELSE UNCHANGED <<conversations, current_session>>
    /\ op' = "clear_session"
    /\ out' = Ret(None)
    /\ UNCHANGED <<code, language, file_path, pc, tree, flags, dirVars, report,
                   collab, calls, max_history, previous>>

load_conversation ==
    /\ \E file \in ConversationFiles :
         IF file.kind = "conversation"
         THEN /\ current_session' = file.exchanges
              /\ out' = Ret(TRUE)
         ELSE /\ UNCHANGED current_session
              /\ out' = Ret(FALSE)
    /\ op' = "load_conversation"
    /\ UNCHANGED <<code, language, file_path, pc, tree, flags, dirVars, report,
                   collab, calls, max_history, conversations, previous>>

NextMemory ==
    \/ add_exchange
    \/ clear_session
    \/ load_conversation

SpecMemory == InitMemory /\ [][NextMemory]_vars

\* ================================================================ claims
\* An entry the aggregator must analyse: a file whose extension is in the
\* allow-list, compared case-insensitively.
Matching(i) == tree[i].kind = "file" /\ lower(tree[i].suffix) \in code_extensions

IsErrorRecord(r) == DOMAIN r = {"error", "file_path"}

AnalysisFields ==
    {"file_path", "language", "file_size", "line_count", "complexity",
     "imports", "functions", "syntax_valid"}

IsFullRecord(r) == "error" \notin DOMAIN r /\ AnalysisFields \subseteq DOMAIN r

IsInvalidReport(r) == "syntax_valid" \in DOMAIN r /\ ~r.syntax_valid

\* The entry a report is about
EntryOf(r) == tree[r.file_path.id]

\* Every file report the analyzer has produced so far
Reports ==
    (IF pc = "file_returned" THEN {report} ELSE {})
    \cup {files_analyzed[k] : k \in 1..Len(files_analyzed)}

\* Reading the entry fails, or one of the analyzers raises on its text
Faults(e) ==
    \/ e.read # "ok"
    \/ /\ lower(e.suffix) = ".py"
       /\ ast_parse(e.code).raised
       /\ ast_parse(e.code).exc # "SyntaxError"

NewlineCount(txt) == Cardinality({i \in 1..Len(txt) : txt[i] = "\n"})

RECURSIVE SumCounts(_)
SumCounts(h) ==
    IF DOMAIN h = {} THEN 0
    ELSE LET k == CHOOSE x \in DOMAIN h : TRUE
         IN  h[k] + SumCounts([x \in DOMAIN h \ {k} |-> h[x]])

ValidPy == Entry("file", ".py", "ok", "ok", <<DefAtom, "\n", "#">>)
InvalidPy == Entry("file", ".py", "ok", "ok", <<"(", "\n", "x">>)
UnreadablePy == Entry("file", ".py", "ok", "PermissionError", <<>>)

\* C1 (as claimed): after analyze_directory, total_files counts every
\* matching file, and every matching file whose read raised has an entry
\* in summary.issues.
C1_UnreadableFileIsAnIssue ==
    pc = "dir_returned" =>
        /\ results.summary.total_files =
               Cardinality({i \in 1..Len(tree) : Matching(i)})
        /\ \A i \in 1..Len(tree) :
               (Matching(i) /\ tree[i].read # "ok") =>
                   \E k \in 1..Len(results.summary.issues) :
                       results.summary.issues[k][1] = PathOf(tree, i)

\* C2: every report analyze_file returns is either exactly the record
\* {error, file_path} or a record with the analysis fields and no error
\* field; a fault at any step gives exactly the error record; no call
\* raises (line 129 never catches anything).
C2_ReportShape ==
    /\ caught = 0
    /\ \A r \in Reports :
          /\ IsErrorRecord(r) \/ IsFullRecord(r)
          /\ Faults(EntryOf(r)) => IsErrorRecord(r)

C2_Witness ==
    /\ pc = "file_returned"
    /\ IsErrorRecord(report)
    /\ EntryOf(report).read = "ok"
    /\ EntryOf(report).code = <<DeepAtom>>

\* C3: after analyze_directory, total_files is the number of reports, and
\* every matching file of the tree has exactly one report, error record or
\* not.
C3_EveryMatchingFileOnce ==
    pc = "dir_returned" =>
        /\ results.summary.total_files = Len(results.files_analyzed)
        /\ \A i \in 1..Len(tree) :
               Matching(i) =>
                   Cardinality({k \in 1..Len(results.files_analyzed) :
                       results.files_analyzed[k].file_path = PathOf(tree, i)})
                     = 1

C3_Witness ==
    /\ pc = "dir_returned"
    /\ Len(results.files_analyzed) = 2
    /\ IsErrorRecord(results.files_analyzed[1])
    /\ IsFullRecord(results.files_analyzed[2])
    /\ tree[2].suffix = ".PY"

\* C4 (as claimed): whatever fails while an entry is handled, the is-file
\* check included, analyze_directory does not raise.
C4_AlwaysReturnsSummary == pc # "dir_raised"

\* C5: after analyze_directory, issues_found is the length of issues, which
\* is the number of reports with syntax_valid false plus the failures caught
\* by the aggregator; an invalid report has exactly one issue, any other
\* report none; a valid and an invalid Python file give 2 reports, 1 issue.
C5_IssuesCount ==
    pc = "dir_returned" =>
        LET S == results.summary
            F == results.files_analyzed
        IN  /\ S.issues_found = Len(S.issues)
            /\ Len(S.issues) =
                   Cardinality({k \in 1..Len(F) : IsInvalidReport(F[k])})
                   + caught
            /\ \A k \in 1..Len(F) :
                   Cardinality({j \in 1..Len(S.issues) :
                                    S.issues[j][1] = F[k].file_path})
                     = IF IsInvalidReport(F[k]) THEN 1 ELSE 0
            /\ ( /\ tree \in {<<ValidPy, InvalidPy>>, <<InvalidPy, ValidPy>>}
                 /\ \A k \in 1..Len(F) : IsFullRecord(F[k]) )
               => (Len(F) = 2 /\ S.issues_found = 1)

C5_Witness ==
    /\ pc = "dir_returned"
    /\ tree = <<ValidPy, InvalidPy>>
    /\ \A k \in 1..Len(results.files_analyzed) :
           IsFullRecord(results.files_analyzed[k])
    /\ results.summary.issues_found = 1

\* C6: after analyze_directory, total_lines is the sum over the successful
\* reports of the file's line count (its line breaks plus one); an error
\* record adds 0.
C6_TotalLines ==
    pc = "dir_returned" =>
        LET F == results.files_analyzed
        IN  /\ \A k \in 1..Len(F) :
                   IsFullRecord(F[k]) =>
                       F[k].line_count = NewlineCount(EntryOf(F[k]).code) + 1
            /\ results.summary.total_lines =
                   SumSeq([k \in 1..Len(F) |->
                              IF IsFullRecord(F[k])
                              THEN NewlineCount(EntryOf(F[k]).code) + 1
                              ELSE 0])

C6_Witness ==
    /\ pc = "dir_returned"
    /\ Len(results.files_analyzed) = 2
    /\ IsErrorRecord(results.files_analyzed[1])
    /\ IsFullRecord(results.files_analyzed[2])
    /\ results.files_analyzed[2].line_count = 2
    /\ results.summary.total_lines = 2

HistogramSum == SumCounts(results.summary.languages) = results.summary.total_files

\* C7 (as claimed): after analyze_directory, the histogram counts sum to
\* total_files, every key is a tag of the detector's table, and its count
\* is the number of reports carrying that tag.
C7_HistogramOfDetectorTags ==
    pc = "dir_returned" =>
        LET F == results.files_analyzed
            H == results.summary.languages
        IN  /\ HistogramSum
            /\ \A key \in DOMAIN H :
                   /\ key \in LanguageTags
                   /\ H[key] = Cardinality({k \in 1..Len(F) :
                          "language" \in DOMAIN F[k] /\ F[k].language = key})

\* C7 (amended): after analyze_directory, the histogram counts sum to
\* total_files; every key is a tag of the detector's table or "unknown";
\* a tag's count is the number of reports carrying it, and "unknown"
\* counts the error records, which carry no tag.
C7_HistogramWithUnknown ==
    pc = "dir_returned" =>
        LET F == results.files_analyzed
            H == results.summary.languages
        IN  /\ HistogramSum
            /\ \A key \in DOMAIN H :
                   \/ /\ key \in LanguageTags
                      /\ H[key] = Cardinality({k \in 1..Len(F) :
                             "language" \in DOMAIN F[k] /\ F[k].language = key})
                   \/ /\ key = "unknown"
                      /\ H[key] = Cardinality({k \in 1..Len(F) :
                             IsErrorRecord(F[k])})
            /\ \A k \in 1..Len(F) :
                   IF IsErrorRecord(F[k]) THEN "unknown" \in DOMAIN H
                   ELSE F[k].language \in DOMAIN H

C7_Witness ==
    /\ pc = "dir_returned"
    /\ DOMAIN results.summary.languages = {"python", "unknown"}
    /\ results.summary.total_files = 2

\* C8: for Python, validate_syntax returns (true, none) when the parse
\* succeeds and (false, diagnostic) on a syntax error; a successful file
\* report has syntax_error iff syntax_valid is false.
C8_SyntaxValidation ==
    /\ (op = "validate_syntax" /\ language = "python") =>
          LET tr == ast_parse(code)
          IN  /\ ~tr.raised => out = Ret([is_valid |-> TRUE, error |-> None])
              /\ (tr.raised /\ tr.exc = "SyntaxError") =>
                     /\ out = Ret([is_valid |-> FALSE, error |-> tr.msg])
                     /\ out.val.error # None
              /\ code = <<"(">> => ~out.val.is_valid
              /\ code = <<"x">> => out.val.is_valid
    /\ (op = "analyze_file" /\ IsFullRecord(out.val)) =>
          (("syntax_error" \in DOMAIN out.val) <=> ~out.val.syntax_valid)

C8_Witness ==
    /\ op = "analyze_file"
    /\ language = "python"
    /\ IsFullRecord(out.val)
    /\ ~out.val.syntax_valid
    /\ out.val.syntax_error = SyntaxDiagnostic

\* C9: for a language other than python, validate_syntax returns
\* (true, none) for every text, and a report of such a file has
\* syntax_valid true and no syntax_error.
C9_OtherLanguagesAlwaysValid ==
    language # "python" =>
        /\ op = "validate_syntax" =>
               out = Ret([is_valid |-> TRUE, error |-> None])
        /\ (op = "analyze_file" /\ IsFullRecord(out.val)) =>
               /\ out.val.syntax_valid
               /\ "syntax_error" \notin DOMAIN out.val

C9_Witness ==
    /\ op = "validate_syntax"
    /\ language = "javascript"
    /\ code = <<"(">>
    /\ out.val.is_valid

\* C10: estimate_complexity never fails with a division fault; its
\* comment_ratio is comment_lines / max(code_lines, 1), its counts are
\* >= 0, and the empty text has code_lines 0 and ratio 0.
C10_CommentRatio ==
    op = "estimate_complexity" =>
        /\ ~(out.raised /\ out.exc = "ZeroDivisionError")
        /\ ~out.raised =>
               LET m == out.val
               IN  /\ m.comment_ratio.num = m.comment_lines
                   /\ m.comment_ratio.den = Max(m.code_lines, 1)
                   /\ m.comment_ratio.den # 0
                   /\ m.total_lines >= 0 /\ m.code_lines >= 0
                   /\ m.comment_lines >= 0 /\ m.function_count >= 0
        /\ code = <<>> =>
               /\ ~out.raised
               /\ out.val.code_lines = 0
               /\ out.val.comment_ratio.num = 0

C10_Witness ==
    /\ op = "estimate_complexity"
    /\ ~out.raised
    /\ out.val.code_lines = 0
    /\ out.val.comment_lines > 0

\* How often e occurs in seq
Count(seq, e) == Cardinality({k \in 1..Len(seq) : seq[k] = e})

\* Position i of the text lies in a comment
InComment(txt, i) ==
    \E j \in 1..(i - 1) :
        /\ txt[j] = "#"
        /\ \A k \in j..i : txt[k] \notin {"\n", "\r"}

\* How many statements of the text are the atom a
StatementCount(txt, a) ==
    Cardinality({i \in 1..Len(txt) : txt[i] = a /\ ~InComment(txt, i)})

ParsesAsPython == op \in {"extract_imports", "find_functions"}
                      /\ language = "python" /\ ~ast_parse(code).raised

\* C11: on Python text that parses, extract_imports returns one entry
\* "import X" for each name of each import statement and one entry
\* "from M import A, B" for each from-import statement, built from the
\* imported names and never from the alias targets, and nothing else;
\* "import os\nfrom sys import path" gives exactly
\* ["import os", "from sys import path"].
C11_ImportNormalForm ==
    (ParsesAsPython /\ op = "extract_imports") =>
        /\ ~out.raised
        /\ Count(out.val, <<"import ", "os">>) = StatementCount(code, ImportOs)
        /\ Count(out.val, <<"import ", "a">>)
               = StatementCount(code, ImportAliased)
        /\ Count(out.val, <<"import ", "c">>)
               = StatementCount(code, ImportAliased)
        /\ Count(out.val, <<"import ", "n">>)
               = StatementCount(code, NestedImport)
        /\ Count(out.val, <<"from ", "sys", " import ", <<"path">>>>)
               = StatementCount(code, FromSysImportPath)
        /\ Count(out.val, <<"from ", "m", " import ", <<"a", "b">>>>)
               = StatementCount(code, FromAliased)
        /\ Count(out.val, <<"from ", "a", " import ", <<"*">>>>)
               = StatementCount(code, ImportAtom)
        /\ Len(out.val) =
               StatementCount(code, ImportOs)
               + 2 * StatementCount(code, ImportAliased)
               + StatementCount(code, NestedImport)
               + StatementCount(code, FromSysImportPath)
               + StatementCount(code, FromAliased)
               + StatementCount(code, ImportAtom)
        /\ code = TwoImportsText =>
               out.val = << <<"import ", "os">>,
                            <<"from ", "sys", " import ", <<"path">>>> >>

C11_Witness ==
    /\ op = "extract_imports"
    /\ language = "python"
    /\ code = <<ImportAliased, "\n", FromAliased>>
    /\ out = Ret(<< <<"import ", "a">>, <<"import ", "c">>,
                    <<"from ", "m", " import ", <<"a", "b">>>> >>)

\* The entries the import statement held by one atom stands for
EntriesOfAtom(a) ==
    CASE a = ImportOs -> << <<"import ", "os">> >>
      [] a = ImportAliased -> << <<"import ", "a">>, <<"import ", "c">> >>
      [] a = NestedImport -> << <<"import ", "n">> >>
      [] a = FromSysImportPath -> << <<"from ", "sys", " import ", <<"path">>>> >>
      [] a = FromAliased -> << <<"from ", "m", " import ", <<"a", "b">>>> >>
      [] a = ImportAtom -> << <<"from ", "a", " import ", <<"*">>>> >>
      [] OTHER -> <<>>

\* The entries of the import statements of a text, first line first
RECURSIVE SourceOrderEntries(_, _)
SourceOrderEntries(txt, i) ==
    IF i > Len(txt) THEN <<>>
    ELSE (IF InComment(txt, i) THEN <<>> ELSE EntriesOfAtom(txt[i]))
         \o SourceOrderEntries(txt, i + 1)

IsJsDeclaration(a) == a \in {JsImport, JsRequire}

\* C12 (as claimed): the list extract_imports returns is in order of
\* appearance, duplicates kept: for Python that parses, the entries of the
\* import statements first line first, nested ones included; for
\* JavaScript and TypeScript, the matched declarations in the order they
\* stand in the text, whichever pattern matched them.
C12_OrderOfAppearance ==
    (op = "extract_imports" /\ ~out.raised) =>
        /\ (language = "python" /\ ~ast_parse(code).raised) =>
               out.val = SourceOrderEntries(code, 1)
        /\ language \in {"javascript", "typescript"} =>
               SelectSeq(out.val, IsJsDeclaration)
                   = SelectSeq(code, IsJsDeclaration)

\* The atoms that are a function definition
DefinitionAtoms ==
    {DefAtom, DefAdd, DefDoc, DefPosOnly, AsyncDef, NestedImport}

\* The descriptor of the definition an atom holds, standing on line n:
\* its name, its positional parameters in order, its docstring
DescriptorOf(a, n) ==
    CASE a = DefAtom ->
           [name |-> "f", line |-> n, args |-> <<"a">>, docstring |-> None]
      [] a = DefAdd ->
           [name |-> "add", line |-> n, args |-> <<"a", "b">>,
            docstring |-> None]
      [] a = DefDoc ->
           [name |-> "h", line |-> n, args |-> <<"a", "b">>,
            docstring |-> "doc"]
      [] a = DefPosOnly ->
           [name |-> "p", line |-> n, args |-> <<"a", "b">>,
            docstring |-> None]
      [] a = AsyncDef ->
           [name |-> "k", line |-> n, args |-> <<>>, docstring |-> None]
      [] a = NestedImport ->
           [name |-> "g", line |-> n, args |-> <<>>, docstring |-> None]

\* The 1-based number of the line position i of the text stands on
LineOf(txt, i) ==
    1 + NewlineCount(translate_newlines(SubSeq(txt, 1, i - 1)))

DefinitionsAt(txt) ==
    {i \in 1..Len(txt) : txt[i] \in DefinitionAtoms /\ ~InComment(txt, i)}

\* C13 (as claimed): on Python text that parses, find_functions returns
\* one descriptor for each function definition, with its name, the 1-based
\* line of its def, its positional parameter names in order and its
\* docstring or null; the 5-line file with add defined on line 2 gives
\* name "add", line 2, args ["a", "b"].
C13_DescriptorPerDefinition ==
    (ParsesAsPython /\ op = "find_functions") =>
        /\ ~out.raised
        /\ Len(out.val) = Cardinality(DefinitionsAt(code))
        /\ \A i \in DefinitionsAt(code) :
               \E k \in 1..Len(out.val) :
                   out.val[k] = DescriptorOf(code[i], LineOf(code, i))
        /\ code = FiveLineText =>
               out.val = <<[name |-> "add", line |-> 2, args |-> <<"a", "b">>,
                            docstring |-> None]>>

\* C14: in every successful file report, each function descriptor's line
\* is at least 1 and at most the report's total_lines, whether the
\* descriptors come from the parse tree or from the pattern fallback.
C14_LineWithinFile ==
    (op = "analyze_file" /\ IsFullRecord(out.val)) =>
        \A k \in 1..Len(out.val.functions) :
            /\ 1 <= out.val.functions[k].line
            /\ out.val.functions[k].line <= out.val.complexity.total_lines

C14_Witness ==
    /\ op = "analyze_file"
    /\ code = <<"x", "\r", DefAtom>>
    /\ IsFullRecord(out.val)
    /\ out.val.syntax_valid
    /\ out.val.functions[1].line = 2
    /\ out.val.complexity.total_lines = 2

\* C15 (as claimed): extract_imports and find_functions raise for no text
\* and no language; whatever the parser raises is caught.
C15_ExtractionNeverRaises ==
    op \in {"extract_imports", "find_functions"} => ~out.raised

\* The source lines of the text in state
SourceLines == split(code)

\* The lines whose trimmed text the anchored import / def pattern matches
ImportLines ==
    {i \in 1..Len(SourceLines) :
        \E a \in ImportLineAtoms : startswith(strip(SourceLines[i]), a)}

DefLines ==
    {i \in 1..Len(SourceLines) :
        \E a \in DefLineAtoms : startswith(strip(SourceLines[i]), a)}

\* The k-th smallest element of a set of line numbers
Nth(S, k) == CHOOSE i \in S : Cardinality({j \in S : j <= i}) = k

\* C16: when the parse of Python text fails with a syntax error, the
\* result of extract_imports is, in line order, the trimmed text of
\* exactly the lines the import pattern matches, and the result of
\* find_functions is, in line order, one descriptor for exactly the lines
\* the def pattern matches, with that line's 1-based index and a null
\* docstring; the line that does not parse suppresses none of them.
C16_PatternFallback ==
    ( /\ language = "python"
      /\ ast_parse(code).raised
      /\ ast_parse(code).exc = "SyntaxError" ) =>
        /\ op = "extract_imports" =>
               /\ ~out.raised
               /\ Len(out.val) = Cardinality(ImportLines)
               /\ \A k \in 1..Len(out.val) :
                      out.val[k] = strip(SourceLines[Nth(ImportLines, k)])
        /\ op = "find_functions" =>
               /\ ~out.raised
               /\ Len(out.val) = Cardinality(DefLines)
               /\ \A k \in 1..Len(out.val) :
                      /\ out.val[k].line = Nth(DefLines, k)
                      /\ out.val[k].docstring = None
                      /\ out.val[k].name =
                             FallbackName(Head(strip(SourceLines[out.val[k].line])))

C16_Witness ==
    /\ op = "extract_imports"
    /\ language = "python"
    /\ code = <<"(", "\n", ImportOs>>
    /\ out = Ret(<< <<ImportOs>> >>)

\* C17: for a language other than python, javascript and typescript both
\* extractors return the empty list for every text; for javascript and
\* typescript find_functions returns the empty list; so function_count is
\* 0 for every file that is not Python.
C17_DispatchByLanguage ==
    /\ ( /\ language \notin {"python", "javascript", "typescript"}
         /\ op \in {"extract_imports", "find_functions"} )
           => out = Ret(<<>>)
    /\ ( /\ language \in {"javascript", "typescript"}
         /\ op = "find_functions" )
           => out = Ret(<<>>)
    /\ (language # "python" /\ op = "estimate_complexity") =>
           /\ ~out.raised
           /\ out.val.function_count = 0
    /\ (language # "python" /\ op = "analyze_file" /\ IsFullRecord(out.val)) =>
           /\ out.val.functions = <<>>
           /\ out.val.complexity.function_count = 0

C17_Witness ==
    /\ op = "analyze_file"
    /\ language = "typescript"
    /\ code = <<DefAdd, "\n", ImportOs>>
    /\ IsFullRecord(out.val)
    /\ out.val.imports = <<"import ">>
    /\ out.val.complexity.function_count = 0

\* C18: detect_language fails for no path and returns a tag of the table
\* or "text": the table's tag for the path's extension whatever its case,
\* "text" for an extension outside the table and for a name without
\* extension.
C18_DetectLanguageTotal ==
    op = "detect_language" =>
        /\ ~out.raised
        /\ out.val \in LanguageTags
        /\ out.val = "python" <=> suffix(file_path) \in {".py", ".PY", ".Py"}
        /\ out.val = "typescript" <=> suffix(file_path) \in {".ts", ".TS"}
        /\ out.val = "text" <=> suffix(file_path) \in {"", ".gz", ".txt"}
        /\ file_path.name = <<"f">> => out.val = "text"
        /\ file_path.name = <<"", ".py">> => out.val = "text"
        /\ file_path.name = <<"f", ".py", ".">> => out.val = "text"
        /\ file_path.name = <<"f", ".py", ".gz">> => out.val = "text"
        /\ file_path.name = <<"f", ".gz", ".TS">> => out.val = "typescript"

C18_Witness ==
    /\ op = "detect_language"
    /\ file_path.name = <<"f", ".gz", ".Py">>
    /\ out = Ret("python")

\* C19: every successful file report, from a direct call or in the list
\* analyze_directory returns, has ai_insights and improvement_suggestions
\* exactly when deep_analysis was asked, generated_docs exactly when
\* generate_docs was asked, security_issues exactly when security_scan was
\* asked, and complexity, imports, functions and syntax_valid whatever the
\* flags.
C19_OptionalFieldsFollowFlags ==
    \A r \in Reports :
        IsFullRecord(r) =>
            /\ "ai_insights" \in DOMAIN r <=> flags.deep_analysis
            /\ "improvement_suggestions" \in DOMAIN r <=> flags.deep_analysis
            /\ "generated_docs" \in DOMAIN r <=> flags.generate_docs
            /\ "security_issues" \in DOMAIN r <=> flags.security_scan
            /\ {"complexity", "imports", "functions", "syntax_valid"}
                   \subseteq DOMAIN r

C19_Witness ==
    /\ pc = "dir_returned"
    /\ flags = [deep_analysis |-> TRUE, generate_docs |-> FALSE,
                security_scan |-> TRUE]
    /\ Len(results.files_analyzed) = 2
    /\ \A k \in 1..2 :
           /\ IsFullRecord(results.files_analyzed[k])
           /\ "ai_insights" \in DOMAIN results.files_analyzed[k]
           /\ "security_issues" \in DOMAIN results.files_analyzed[k]
           /\ "generated_docs" \notin DOMAIN results.files_analyzed[k]

\* The report field each generation step fills, and the flag that asks it
GeneratedField(c) ==
    CASE c = "insights" -> "ai_insights"
      [] c = "improvements" -> "improvement_suggestions"
      [] c = "docs" -> "generated_docs"

Asked(c) ==
    IF c = "docs" THEN flags.generate_docs ELSE flags.deep_analysis

GenerationSteps == {"insights", "improvements", "docs"}

\* C20 (as claimed): when the text generator fails during insight,
\* improvement or documentation generation, the report is not an error
\* record of that failure, and in a successful report the affected field
\* is empty: no field carries the failure.
C20_FailureNeverSurfaced ==
    pc = "file_returned" =>
        /\ IsErrorRecord(report) => report.error # "llama failure"
        /\ IsFullRecord(report) =>
               \A c \in GenerationSteps :
                   (Asked(c) /\ collab[c].raised) =>
                       report[GeneratedField(c)] = <<>>

\* C20 (amended): a failure of the text generator never fails the file
\* analysis, and in a successful report the affected field holds the text
\* "Error generating response: <failure>"; a step whose generation
\* succeeded holds the stripped generated text.
C20_FailureBecomesText ==
    pc = "file_returned" =>
        /\ IsErrorRecord(report) => report.error # "llama failure"
        /\ IsFullRecord(report) =>
               \A c \in GenerationSteps :
                   Asked(c) =>
                       report[GeneratedField(c)] =
                           IF collab[c].raised
                           THEN <<"Error generating response: ", collab[c].msg>>
                           ELSE strip(collab[c].val)

C20_Witness ==
    /\ pc = "file_returned"
    /\ flags.deep_analysis
    /\ collab["insights"].raised
    /\ ~collab["improvements"].raised
    /\ IsFullRecord(report)
    /\ report.ai_insights = <<"Error generating response: ", "llama failure">>

\* ---- security scan
\* The rules of the list whose substring occurs somewhere in the text
MatchingRules(txt) ==
    {i \in 1..Len(security_patterns) :
        \E k \in 1..Len(txt) : security_patterns[i][1] \in PatternsOf(txt[k])}

\* How many findings the static pass owes for the scanned text
StaticCount ==
    IF language = "python" THEN Cardinality(MatchingRules(code)) ELSE 0

\* The position in the list of the rule with that message
RuleOf(message) ==
    CHOOSE i \in 1..Len(security_patterns) : security_patterns[i][2] = message

\* The text the scan got back from the collaborator
ReturnedText ==
    IF collab.raised THEN <<"Error generating response: ", collab.msg>>
    ELSE strip(collab.val)

\* C21: when the model call fails during the augmentation pass, the list
\* returned by scan_security_issues is exactly the static findings (empty for
\* a file that is not Python): no finding is added for the failure.
C21_FaultAddsNothing ==
    (op = "scan_security_issues" /\ collab.raised) =>
        Len(out.val) = StaticCount

StaticPart ==
    IF Contains(ReturnedText, "No security issues") THEN out.val
    ELSE SubSeq(out.val, 1, Len(out.val) - 1)

\* C26: for Python text the static findings are the messages of the rules
\* whose substring occurs anywhere in the text (code, string literal,
\* comment, longer identifier), each once and in rule order; for any other
\* language there is no static finding.
C26_StaticPass ==
    op = "scan_security_issues" =>
        /\ Len(StaticPart) = StaticCount
        /\ \A k \in 1..Len(StaticPart) :
               \E i \in MatchingRules(code) :
                   StaticPart[k] = security_patterns[i][2]
        /\ \A k \in 1..Len(StaticPart) : \A l \in (k + 1)..Len(StaticPart) :
               RuleOf(StaticPart[k]) < RuleOf(StaticPart[l])

\* a scan of "#eval(x)executor": both substrings sit in a comment, one of
\* them inside a longer identifier
C26_Witness ==
    /\ op = "scan_security_issues"
    /\ language = "python"
    /\ code = <<"#", "eval(x)", "executor">>
    /\ StaticPart = <<"Use of eval() can be dangerous",
                      "Use of exec() can be dangerous">>

\* ---- line metrics
\* The class of a line: the first atom that is not white space decides
LineClass(line) ==
    LET ink == {k \in 1..Len(line) : line[k] \notin {" ", "\r", "\n"}}
    IN  IF ink = {} THEN "blank"
        ELSE IF line[CHOOSE k \in ink : \A j \in ink : k <= j] = "#"
        THEN "comment"
        ELSE "code"

LinesOfClass(c) ==
    Cardinality({i \in 1..Len(SourceLines) : LineClass(SourceLines[i]) = c})

\* C27: estimate_complexity puts every line in exactly one of comment
\* (trimmed text starts with '#'), blank (trimmed text empty) and code, so
\* code_lines + comment_lines + blank lines = total_lines, and total_lines
\* is the number of segments between line feeds, at least 1.
C27_LinePartition ==
    (op = "estimate_complexity" /\ ~out.raised) =>
        /\ out.val.code_lines = LinesOfClass("code")
        /\ out.val.comment_lines = LinesOfClass("comment")
        /\ out.val.code_lines + out.val.comment_lines + LinesOfClass("blank")
               = out.val.total_lines
        /\ out.val.total_lines = Count(code, "\n") + 1
        /\ out.val.total_lines >= 1

\* the metrics of "#\n\nx": one comment line, one blank line, one code line
C27_Witness ==
    /\ op = "estimate_complexity"
    /\ code = <<"#", "\n", "\n", "x">>
    /\ ~out.raised
    /\ out.val.total_lines = 3
    /\ out.val.code_lines = 1
    /\ out.val.comment_lines = 1

\* C28: in every successful file report complexity.function_count is the
\* length of the functions list and complexity.total_lines is line_count.
C28_RedundantFieldsAgree ==
    (op = "analyze_file" /\ IsFullRecord(out.val)) =>
        /\ out.val.complexity.function_count = Len(out.val.functions)
        /\ out.val.complexity.total_lines = out.val.line_count

\* the report of the 5-line file with one definition
C28_Witness ==
    /\ op = "analyze_file"
    /\ code = FiveLineText
    /\ IsFullRecord(out.val)
    /\ Len(out.val.functions) = 1
    /\ out.val.line_count = 5

\* ---- requests to the text generator
\* How many requests one completed file analysis makes under the flags
RequestsPerFile ==
    (IF flags.deep_analysis THEN 2 ELSE 0)
    + (IF flags.generate_docs THEN 1 ELSE 0)
    + (IF flags.security_scan THEN 1 ELSE 0)

\* The analyses of the running call whose basic steps (complexity, imports,
\* functions, syntax validation) completed
CompletedAnalyses ==
    IF pc = "file_returned" THEN (IF IsFullRecord(report) THEN 1 ELSE 0)
    ELSE Cardinality({k \in 1..Len(files_analyzed) :
                         IsFullRecord(files_analyzed[k])})

RequestRank(c) ==
    CASE c = "insights" -> 1
      [] c = "improvements" -> 2
      [] c = "docs" -> 3
      [] c = "security" -> 4

\* C29: with all three flags false no request is made to the text
\* generator; with flags set, requests are made only for files whose
\* complexity, imports, functions and syntax validation completed, per file
\* in the order insights, improvement suggestions, documentation, security
\* augmentation, 2, 1 and 1 requests for the three flags.
C29_CollaboratorCalls ==
    /\ flags = NoFlags => calls = <<>>
    /\ Len(calls) = CompletedAnalyses * RequestsPerFile
    /\ Count(calls, "insights")
           = (IF flags.deep_analysis THEN CompletedAnalyses ELSE 0)
    /\ Count(calls, "improvements")
           = (IF flags.deep_analysis THEN CompletedAnalyses ELSE 0)
    /\ Count(calls, "docs")
           = (IF flags.generate_docs THEN CompletedAnalyses ELSE 0)
    /\ Count(calls, "security")
           = (IF flags.security_scan THEN CompletedAnalyses ELSE 0)
    /\ \A k \in 1..(Len(calls) - 1) :
           k % RequestsPerFile # 0 =>
               RequestRank(calls[k]) < RequestRank(calls[k + 1])

\* a directory call with all flags set that got an error record for one
\* file and a full report, with its four requests, for another
C29_Witness ==
    /\ pc = "dir_returned"
    /\ flags = [deep_analysis |-> TRUE, generate_docs |-> TRUE,
                security_scan |-> TRUE]
    /\ Len(files_analyzed) > CompletedAnalyses
    /\ CompletedAnalyses >= 1
    /\ Len(calls) = 4 * CompletedAnalyses

\* ---- extension tables
\* C25: the allow-list of is_code_file holds at least one extension that is
\* not a key of the detector's table: a file of that extension beside the
\* path passes the filter and gets no language.
C25_AllowListBroader ==
    \E e \in code_extensions :
        /\ e \notin DOMAIN language_extensions
        /\ detect_language([id |-> file_path.id, name |-> <<"f", e>>]) = "text"

\* C25 as the code has it: the allow-list is a table of its own with exactly
\* the keys of the detector's table, so is_code_file accepts a path exactly
\* when detect_language gives it a language other than "text".
C25_AllowListSameKeys ==
    /\ code_extensions = DOMAIN language_extensions
    /\ op = "is_code_file" =>
           (out.val <=> detect_language(file_path) # "text")

\* is_code_file has accepted a path the detector gives a language
C25_Witness ==
    /\ op = "is_code_file"
    /\ out.val
    /\ detect_language(file_path) = "python"

\* ---- analyze_code
\* The entry analyze_code was called on
TargetEntry == IF file_path.id = 0 THEN RootEntry ELSE tree[file_path.id]

\* C23: analyze_code dispatches on the kind of the path: a file goes to
\* analyze_file, a directory to analyze_directory, and a path that is
\* neither raises the path-not-found error to the caller and produces no
\* report.
C23_DispatchOnKind ==
    op = "analyze_code" =>
        /\ TargetEntry.kind = "file" =>
               /\ pc = "file_returned"
               /\ report.file_path = file_path
        /\ TargetEntry.kind = "dir" =>
               pc \in {"dir_loop", "dir_returned", "dir_raised"}
        /\ TargetEntry.kind \notin {"file", "dir"} =>
               /\ pc = "code_raised"
               /\ out = Raise("ValueError", <<"Path not found: ", file_path>>)
               /\ report = None
               /\ results = None

\* ---- repeated analyses
\* The outcome of the call that has just ended
CallResult ==
    IF pc = "file_returned" THEN Ret(report)
    ELSE IF pc = "dir_returned" THEN Ret(results)
    ELSE Raise("PermissionError", "Permission denied")

\* A second call has ended that repeats the first: same method, same path
RepeatedCall ==
    /\ previous # <<>>
    /\ pc \in {"file_returned", "dir_returned", "dir_raised"}
    /\ previous[1].method = (IF pc = "file_returned" THEN "analyze_file"
                             ELSE "analyze_directory")
    /\ pc = "file_returned" => report.file_path = previous[1].path

\* C24: running analyze_file or analyze_directory twice on unchanged files
\* with the same flags yields identical reports.
C24_Idempotent ==
    RepeatedCall => CallResult = previous[1].result

\* C24 as the code has it: the second run yields the identical report when
\* the text generator answers as it did in the first run (always, when no
\* flag is set); nothing the first run left in the analyzer reaches the
\* second.
C24_IdempotentGivenAnswers ==
    (RepeatedCall /\ collab = previous[1].answers) =>
        CallResult = previous[1].result

\* a directory analysed twice with deep analysis and the same answers, at
\* least one file in the result
C24_Witness ==
    /\ RepeatedCall
    /\ pc = "dir_returned"
    /\ flags.deep_analysis
    /\ collab = previous[1].answers
    /\ Len(files_analyzed) >= 1
    /\ previous[1].result = Ret(results)

\* ---- conversation memory
\* C30: after any sequence of add_exchange, clear_session and
\* load_conversation calls, for any max_history >= 0, current_session holds
\* at most max_history exchanges.
C30_SessionBounded == Len(current_session) <= max_history

====
